---- MODULE Spec2Model ----
(***************************************************************************)
(* Block document model of Go-Notion: the sequence functions of the blocks *)
(* service (services/blocks) and the BlockEditor controller component.     *)
(*                                                                         *)
(* A JavaScript object is a TLA+ function from its own property names to   *)
(* values, so { ...b, order: i } and a block that lacks a property are     *)
(* both expressible.  A JavaScript array is a sequence; the source's       *)
(* 0-based indices are kept in every argument and result.                  *)
(***************************************************************************)
EXTENDS Integers, Sequences, FiniteSets, TLC

\* ------------------------------------------------------------------ bounds
\* longest block sequence an operation may be asked to grow
MaxLen == 3
\* how far below 0 an index argument may lie (above, it reaches MaxLen,
\* which is out of range for every sequence an operation may still grow)
IdxSlack == 1
\* number of identifiers generateId hands out in one behaviour
MaxFresh == 1
\* number of field updates (keystrokes, toggles) in one behaviour
MaxEdits == 1

Indices == (0 - IdxSlack)..MaxLen

\* ------------------------------------------------------- JavaScript values
\* the value undefined, as an array element or a missing argument
Undefined == [undefined |-> TRUE]
\* the object literal {}
EmptyObj == [k \in {} |-> TRUE]

Min(a, b) == IF a < b THEN a ELSE b
Max(a, b) == IF a > b THEN a ELSE b

\* { ...o }: spreading undefined contributes no property
Spread(o) == IF o = Undefined THEN EmptyObj ELSE o

\* { ...a, ...b }: b's properties overlay a's
Merge(a, b) ==
  [k \in (DOMAIN Spread(a)) \cup (DOMAIN Spread(b)) |->
     IF k \in DOMAIN Spread(b) THEN b[k] ELSE a[k]]

\* o.p for a property p that may be absent
Get(o, p) == IF o # Undefined /\ p \in DOMAIN o THEN o[p] ELSE Undefined

\* b.id === id, for an element b that may lack the property
IdIs(b, id) == b # Undefined /\ "id" \in DOMAIN b /\ b.id = id

HasId(seq, id) == \E i \in 1..Len(seq) : IdIs(seq[i], id)

\* Array.prototype.splice: the position the start argument denotes
SpliceStart(len, start) ==
  IF start < 0 THEN Max(len + start, 0) ELSE Min(start, len)

\* Array.prototype.splice: the removed elements (its return value)
SpliceRemoved(arr, start, deleteCount) ==
  LET s == SpliceStart(Len(arr), start)
      k == Min(Max(deleteCount, 0), Len(arr) - s)
  IN  SubSeq(arr, s + 1, s + k)

\* Array.prototype.splice: the array after the call
SpliceResult(arr, start, deleteCount, items) ==
  LET s == SpliceStart(Len(arr), start)
      k == Min(Max(deleteCount, 0), Len(arr) - s)
  IN  SubSeq(arr, 1, s) \o items \o SubSeq(arr, s + k + 1, Len(arr))

\* arr.map((b, i) => ({ ...b, order: i }))
Renumbered(arr) ==
  [i \in 1..Len(arr) |-> Merge(arr[i], [order |-> i - 1])]

\* ------------------------------------------------ services/blocks: sequence
\* insertBlock without the final renumbering pass
insertBlockNoRenumber(blocks, index, block) ==
  SpliceResult(blocks, index, 0, <<Merge(block, [order |-> index])>>)

insertBlock(blocks, index, block) ==
  Renumbered(SpliceResult(blocks, index, 0, <<Merge(block, [order |-> index])>>))

\* removeBlock without the renumbering pass
removeBlockNoRenumber(blocks, blockId) ==
  SelectSeq(blocks, LAMBDA b : ~IdIs(b, blockId))

removeBlock(blocks, blockId) ==
  Renumbered(SelectSeq(blocks, LAMBDA b : ~IdIs(b, blockId)))

\* moveBlock exchanging the two positions instead of shifting the rest
moveBlockSwap(blocks, fromIndex, toIndex) ==
  LET f == SpliceStart(Len(blocks), fromIndex) + 1
      t == SpliceStart(Len(blocks), toIndex) + 1
  IN  IF f \in 1..Len(blocks) /\ t \in 1..Len(blocks)
      THEN Renumbered([i \in 1..Len(blocks) |->
                         IF i = f THEN blocks[t]
                         ELSE IF i = t THEN blocks[f] ELSE blocks[i]])
      ELSE Renumbered(blocks)

moveBlock(blocks, fromIndex, toIndex) ==
  LET removed    == SpliceRemoved(blocks, fromIndex, 1)
      afterFirst == SpliceResult(blocks, fromIndex, 1, <<>>)
      movedBlock == IF removed = <<>> THEN Undefined ELSE removed[1]
  IN  Renumbered(SpliceResult(afterFirst, toIndex, 0, <<movedBlock>>))

updateBlock(blocks, blockId, updates) ==
  [i \in 1..Len(blocks) |->
     IF IdIs(blocks[i], blockId) THEN Merge(blocks[i], updates)
     ELSE blocks[i]]

\* What a call leaves of its arguments: the array and the block the caller
\* passed, as they are after the call, and whether the array returned is
\* the array passed.
\* insertBlock with splice applied to blocks itself
insertBlockGivenSpliced(blocks, index, block) ==
  [blocks |-> SpliceResult(blocks, index, 0,
                           <<Merge(block, [order |-> index])>>),
   block |-> block, returnsInput |-> FALSE]

\* insertBlock: splice runs on the copy [...blocks], the block is spread
\* into a new object and map returns a new array of new objects
insertBlockGiven(blocks, index, block) ==
  [blocks |-> blocks, block |-> block, returnsInput |-> FALSE]

\* removeBlock: filter and map each return a new array
removeBlockGiven(blocks, blockId) ==
  [blocks |-> blocks, returnsInput |-> FALSE]

\* moveBlock: both splices run on the copy [...blocks]
moveBlockGiven(blocks, fromIndex, toIndex) ==
  [blocks |-> blocks, returnsInput |-> FALSE]

\* updateBlock: map returns a new array; the matching block is spread into
\* a new object, the others are the input's objects, unwritten
updateBlockGiven(blocks, blockId, updates) ==
  [blocks |-> blocks, returnsInput |-> FALSE]

\* findIndex: the first matching position, or -1
getBlockIndex(blocks, blockId) ==
  IF \E i \in 1..Len(blocks) : IdIs(blocks[i], blockId)
  THEN (CHOOSE i \in 1..Len(blocks) :
          /\ IdIs(blocks[i], blockId)
          /\ \A j \in 1..(i - 1) : ~IdIs(blocks[j], blockId)) - 1
  ELSE 0 - 1

\* ------------------------------------------------------------------ state
VARIABLES
  svcSeq,   \* blocks service: the sequence produced by the last call
  svcIn,    \* blocks service: the sequence the last call was given
  svcOp,    \* blocks service: the last call, its arguments, and under
            \* after what the call left of them
  mounted,          \* BlockEditor: the mount effect has run
  blocks,           \* BlockEditor: the blocks prop (the objects as they are now)
  firstBlocks,      \* the blocks array the first render's callbacks closed over
  selectedBlockId,  \* useState<string | null>
  showBlockMenu,    \* useState(false)
  menuIndex,        \* useState<number | null>: <<>> is null, <<n>> is n
  draggedIndex,     \* useState<number | null>: <<>> is null, <<n>> is n
  idsMade,          \* number of ids generateId has returned
  edits,            \* number of field updates made
  lastOp,           \* the last handler run and its arguments
  notified,         \* the sequences that handler passed to onBlocksChange
  threw,            \* that handler raised a TypeError
  gesture,          \* the drag in progress: <<id>> of the block that was at
                    \* the drag index when it started, <<>> when none is
  notes,            \* App: useState<Note[]>, by note id
  selectedNoteId,   \* App: useState<string | null>
  db,               \* the rows of the notes table, by note id
  title,            \* Editor: useState(note.title)
  editorContent,    \* Editor: useState(note.content), the content state
  useBlockEditor,   \* Editor: useState(!!note.blocks && note.blocks.length > 0)
  resetPending,     \* Editor: the note.id effect's updates are not rendered yet
  timer,            \* Editor: the pending timeout's closure, <<>> when none
  entered,          \* by note id, the title and content the editor last
                    \* showed for it: as loaded, or as the user left them
  lastUpdate        \* the last onUpdate call: <<>> or <<[by, note]>>

svcVars == <<svcSeq, svcIn, svcOp>>
edVars == <<mounted, blocks, firstBlocks, selectedBlockId,
            showBlockMenu, menuIndex, draggedIndex, idsMade, edits,
            lastOp, notified, threw>>
appVars == <<notes, selectedNoteId, db, title, editorContent,
             useBlockEditor, resetPending, timer, entered, lastUpdate>>
restVars == <<gesture, appVars>>
vars == <<svcSeq, svcIn, svcOp, mounted, blocks, firstBlocks,
          selectedBlockId, showBlockMenu, menuIndex, draggedIndex, idsMade,
          edits, lastOp, notified, threw, gesture, notes, selectedNoteId,
          db, title, editorContent, useBlockEditor, resetPending, timer,
          entered, lastUpdate>>

\* ------------------------------------------ blocks service: inputs drawn
BlockA == [id |-> "a", type |-> "paragraph", content |-> "x", order |-> 0,
           metadata |-> EmptyObj]
BlockB == [id |-> "b", type |-> "task", content |-> "y", order |-> 0,
           metadata |-> [checked |-> TRUE]]
BlockC == [id |-> "c", type |-> "link", content |-> "", order |-> 0,
           metadata |-> [url |-> "u"]]

At(b, o) == Merge(b, [order |-> o])

SvcBlocks == {BlockA, BlockB, BlockC}
SvcIds == {"a", "b", "c"}
SvcUpdates == { [content |-> "z", metadata |-> [url |-> "v"]] }
SvcInitSeqs == { <<>>,
                 <<At(BlockA, 0), At(BlockB, 1), At(BlockC, 2)>>,
                 <<At(BlockB, 4), At(BlockA, 4)>> }

\* the App and Editor variables while no note is open and no drag runs
AppIdle ==
  /\ gesture = <<>>
  /\ notes = <<>>
  /\ selectedNoteId = "null"
  /\ db = <<>>
  /\ title = ""
  /\ editorContent = ""
  /\ useBlockEditor = FALSE
  /\ resetPending = FALSE
  /\ timer = <<>>
  /\ entered = <<>>
  /\ lastUpdate = <<>>

\* the BlockEditor variables while only the blocks service runs
EdIdle ==
  /\ mounted = FALSE
  /\ blocks = <<>>
  /\ firstBlocks = <<>>
  /\ selectedBlockId = "null"
  /\ showBlockMenu = FALSE
  /\ menuIndex = <<>>
  /\ draggedIndex = <<>>
  /\ idsMade = 0
  /\ edits = 0
  /\ lastOp = [name |-> "none"]
  /\ notified = <<>>
  /\ threw = FALSE

SvcInit ==
  /\ svcSeq \in SvcInitSeqs
  /\ svcIn = svcSeq
  /\ svcOp = [name |-> "none"]
  /\ EdIdle
  /\ AppIdle

\* generateId never repeats an id, so an inserted block's id is new
SvcInsert(index, block) ==
  /\ Len(svcSeq) < MaxLen
  /\ \A i \in 1..Len(svcSeq) : ~IdIs(svcSeq[i], block.id)
  /\ svcIn' = svcSeq
  /\ svcOp' = [name |-> "insert", index |-> index, block |-> block,
               after |-> insertBlockGiven(svcSeq, index, block)]
  /\ svcSeq' = insertBlock(svcSeq, index, block)
  /\ UNCHANGED edVars
  /\ UNCHANGED restVars

SvcRemove(blockId) ==
  /\ svcIn' = svcSeq
  /\ svcOp' = [name |-> "remove", id |-> blockId,
               after |-> removeBlockGiven(svcSeq, blockId)]
  /\ svcSeq' = removeBlock(svcSeq, blockId)
  /\ UNCHANGED edVars
  /\ UNCHANGED restVars

SvcMove(fromIndex, toIndex) ==
  /\ Len(moveBlock(svcSeq, fromIndex, toIndex)) <= MaxLen
  /\ svcIn' = svcSeq
  /\ svcOp' = [name |-> "move", fromIndex |-> fromIndex, toIndex |-> toIndex,
               after |-> moveBlockGiven(svcSeq, fromIndex, toIndex)]
  /\ svcSeq' = moveBlock(svcSeq, fromIndex, toIndex)
  /\ UNCHANGED edVars
  /\ UNCHANGED restVars

SvcUpdate(blockId, updates) ==
  /\ svcIn' = svcSeq
  /\ svcOp' = [name |-> "update", id |-> blockId, updates |-> updates,
               after |-> updateBlockGiven(svcSeq, blockId, updates)]
  /\ svcSeq' = updateBlock(svcSeq, blockId, updates)
  /\ UNCHANGED edVars
  /\ UNCHANGED restVars

SvcNext ==
  \/ \E i \in Indices, b \in SvcBlocks : SvcInsert(i, b)
  \/ \E id \in SvcIds : SvcRemove(id)
  \/ \E i \in Indices, j \in Indices : SvcMove(i, j)
  \/ \E id \in SvcIds, u \in SvcUpdates : SvcUpdate(id, u)

SpecSvc == SvcInit /\ [][SvcNext]_vars

\* ------------------------------------------------ BlockEditor component
Null == "null"

\* inputs the handlers are driven with
EdTypes == {"heading1"}
EdContents == {"z"}
EdPatches == {Undefined, [url |-> "v"]}
AbsentId == "zz"
EdInitSeqs == { <<>>, <<At(BlockB, 0)>> }

IdsOf(seq) == {seq[i].id : i \in 1..Len(seq)}

\* crypto.randomUUID(): an id never returned before
generateId == "n" \o ToString(idsMade + 1)

\* updatedBlocks.forEach((b, i) => (b.order = i)), as far as the first n
\* elements: the assignment writes the objects the array holds
SetOrders(arr, n) ==
  [i \in 1..Len(arr) |->
     IF i <= n THEN Merge(arr[i], [order |-> i - 1]) ELSE arr[i]]

\* const updatedBlocks = [...blocks] copies the array and shares its
\* elements: once the handler's forEach has run, each block of the array it
\* was given has the fields the written array holds for that block
GivenAfter(given, written) ==
  [i \in 1..Len(given) |->
     IF \E j \in 1..Len(written) : IdIs(written[j], given[i].id)
     THEN written[CHOOSE j \in 1..Len(written) :
                     IdIs(written[j], given[i].id)]
     ELSE given[i]]

Init ==
  /\ blocks \in EdInitSeqs
  /\ firstBlocks = blocks
  /\ mounted = FALSE
  /\ selectedBlockId = Null
  /\ showBlockMenu = FALSE
  /\ menuIndex = <<>>
  /\ draggedIndex = <<>>
  /\ idsMade = 0
  /\ edits = 0
  /\ lastOp = [name |-> "none"]
  /\ notified = <<>>
  /\ threw = FALSE
  /\ svcSeq = <<>>
  /\ svcIn = <<>>
  /\ svcOp = [name |-> "none"]
  /\ AppIdle

\* the mount effect's block as a heading placed second
initialBlockHeading ==
  [id |-> generateId, type |-> "heading1", content |-> "", order |-> 1,
   metadata |-> EmptyObj]

\* the block the mount effect creates
initialBlock ==
  [id |-> generateId, type |-> "paragraph", content |-> "", order |-> 0,
   metadata |-> EmptyObj]

\* React.useEffect(..., []): create the initial block if empty
MountEffect ==
  /\ ~mounted
  /\ mounted' = TRUE
  /\ lastOp' = [name |-> "mount"]
  /\ threw' = FALSE
  /\ IF Len(blocks) = 0
     THEN /\ blocks' = <<initialBlock>>
          /\ notified' = <<(<<initialBlock>>)>>
          /\ idsMade' = idsMade + 1
     ELSE /\ notified' = <<>>
          /\ UNCHANGED <<blocks, idsMade>>
  /\ UNCHANGED <<edits, firstBlocks, selectedBlockId,
                 showBlockMenu, menuIndex, draggedIndex>>
  /\ UNCHANGED svcVars

\* handleUpdateBlock with the patch replacing the metadata map
updatedByUpdateReplacing(blks, blockId, content, metadata) ==
  [i \in 1..Len(blks) |->
     IF IdIs(blks[i], blockId)
     THEN Merge(blks[i], [content |-> content, metadata |-> Spread(metadata)])
     ELSE blks[i]]

\* handleUpdateBlock: the array it passes to onBlocksChange
updatedByUpdate(blks, blockId, content, metadata) ==
  [i \in 1..Len(blks) |->
     IF IdIs(blks[i], blockId)
     THEN Merge(blks[i],
                [content |-> content,
                 metadata |-> Merge(Get(blks[i], "metadata"), metadata)])
     ELSE blks[i]]

\* While the BlockMenu is shown its full-window overlay lies over the
\* blocks and the add buttons, so no other handler is reachable.
handleUpdateBlock(blockId, content, metadata) ==
  /\ mounted
  /\ ~showBlockMenu
  /\ edits < MaxEdits
  /\ edits' = edits + 1
  /\ LET updatedBlocks == updatedByUpdate(blocks, blockId, content, metadata)
     IN  /\ blocks' = updatedBlocks
         /\ notified' = <<updatedBlocks>>
  /\ lastOp' = [name |-> "update", id |-> blockId, content |-> content,
                metadata |-> metadata]
  /\ threw' = FALSE
  /\ UNCHANGED <<mounted, firstBlocks, selectedBlockId, showBlockMenu,
                 menuIndex, draggedIndex, idsMade>>
  /\ UNCHANGED svcVars

\* handleDeleteBlock without the last-block branch
updatedByDeleteUnguarded(blks, blockId) ==
  SelectSeq(blks, LAMBDA b : ~IdIs(b, blockId))

\* handleDeleteBlock: the array it passes to onBlocksChange
updatedByDelete(blks, blockId) ==
  IF Len(blks) = 1
  THEN [i \in 1..Len(blks) |->
          IF IdIs(blks[i], blockId) THEN Merge(blks[i], [content |-> ""])
          ELSE blks[i]]
  ELSE SelectSeq(blks, LAMBDA b : ~IdIs(b, blockId))

handleDeleteBlock(blockId) ==
  /\ mounted
  /\ ~showBlockMenu
  /\ LET updatedBlocks == updatedByDelete(blocks, blockId)
     IN  /\ blocks' = updatedBlocks
         /\ notified' = <<updatedBlocks>>
  /\ IF Len(blocks) = 1
     THEN UNCHANGED selectedBlockId
     ELSE selectedBlockId' = Null
  /\ lastOp' = [name |-> "delete", id |-> blockId]
  /\ threw' = FALSE
  /\ UNCHANGED <<edits, mounted, firstBlocks, showBlockMenu, menuIndex,
                 draggedIndex, idsMade>>
  /\ UNCHANGED svcVars

\* handleDuplicateBlock without the forEach that rewrites the order values
updatedByDuplicateNoRenumber(blks, blockIndex) ==
  LET newBlock == Merge(blks[blockIndex + 1],
                        [id |-> generateId, order |-> blockIndex + 1])
  IN  SpliceResult(blks, blockIndex + 1, 0, <<newBlock>>)

\* handleDuplicateBlock with the clone put at the end of the array
updatedByDuplicateAppending(blks, blockIndex) ==
  LET newBlock == Merge(blks[blockIndex + 1],
                        [id |-> generateId, order |-> blockIndex + 1])
      spliced == blks \o <<newBlock>>
  IN  SetOrders(spliced, Len(spliced))

\* handleDuplicateBlock with the clone keeping the id of the original
updatedByDuplicateSameId(blks, blockIndex) ==
  LET newBlock == Merge(blks[blockIndex + 1], [order |-> blockIndex + 1])
      spliced == SpliceResult(blks, blockIndex + 1, 0, <<newBlock>>)
  IN  SetOrders(spliced, Len(spliced))

\* handleDuplicateBlock: the array it passes to onBlocksChange when the
\* block is found at blockIndex
updatedByDuplicate(blks, blockIndex) ==
  LET blockToDuplicate == blks[blockIndex + 1]
      newBlock == Merge(blockToDuplicate,
                        [id |-> generateId, order |-> blockIndex + 1])
      spliced == SpliceResult(blks, blockIndex + 1, 0, <<newBlock>>)
  IN  SetOrders(spliced, Len(spliced))

handleDuplicateBlock(blockId) ==
  /\ mounted
  /\ ~showBlockMenu
  /\ LET blockIndex == getBlockIndex(blocks, blockId)
     IN  IF blockIndex = 0 - 1
         THEN /\ notified' = <<>>
              /\ UNCHANGED <<blocks, idsMade>>
         ELSE LET updatedBlocks == updatedByDuplicate(blocks, blockIndex)
              IN  /\ Len(blocks) < MaxLen
                  /\ idsMade < MaxFresh
                  /\ blocks' = updatedBlocks
                  /\ notified' = <<updatedBlocks>>
                  /\ idsMade' = idsMade + 1
  /\ lastOp' = [name |-> "duplicate", id |-> blockId]
  /\ threw' = FALSE
  /\ UNCHANGED <<edits, mounted, firstBlocks, selectedBlockId, showBlockMenu,
                 menuIndex, draggedIndex>>
  /\ UNCHANGED svcVars

\* handleInsertBlock with the new block pushed at the end of the array
handleInsertBlockAppending(arr, index, type) ==
  LET newBlock == [id |-> generateId, type |-> type, content |-> "",
                   order |-> index, metadata |-> EmptyObj]
      spliced == arr \o <<newBlock>>
  IN  SetOrders(spliced, Len(spliced))

\* the array handleInsertBlock passes to onBlocksChange, for the blocks
\* array arr its closure holds
handleInsertBlock(arr, index, type) ==
  LET newBlock == [id |-> generateId, type |-> type, content |-> "",
                   order |-> index, metadata |-> EmptyObj]
      spliced == SpliceResult(arr, index, 0, <<newBlock>>)
  IN  SetOrders(spliced, Len(spliced))

\* handleAddBlock is memoised with no dependencies: the handleInsertBlock
\* it calls is the first render's, whose blocks is the first render's.
\* That array is only ever copied; the order values later handlers write
\* into objects it shares are all rewritten by this forEach before the
\* copy is handed on, so firstBlocks holds the first render's values.
handleAddBlock(index, type) ==
  /\ mounted
  /\ ~showBlockMenu
  /\ menuIndex' = <<index>>
  /\ IF type # <<>>
     THEN /\ Len(firstBlocks) < MaxLen
          /\ idsMade < MaxFresh
          /\ LET updatedBlocks ==
                   handleInsertBlock(firstBlocks, index, type[1])
             IN  /\ blocks' = updatedBlocks
                 /\ notified' = <<updatedBlocks>>
          /\ showBlockMenu' = FALSE
          /\ selectedBlockId' = generateId
          /\ idsMade' = idsMade + 1
     ELSE /\ showBlockMenu' = TRUE
          /\ notified' = <<>>
          /\ UNCHANGED <<blocks, selectedBlockId,
                         idsMade>>
  /\ lastOp' = [name |-> "add", index |-> index, type |-> type]
  /\ threw' = FALSE
  /\ UNCHANGED <<edits, mounted, firstBlocks, draggedIndex>>
  /\ UNCHANGED svcVars

\* a click on a type of the BlockMenu: onSelectType, which is the current
\* render's handleInsertBlock at menuIndex, and then onClose
onSelectType(type) ==
  /\ mounted
  /\ showBlockMenu
  /\ IF menuIndex # <<>>
     THEN /\ Len(blocks) < MaxLen
          /\ idsMade < MaxFresh
          /\ LET updatedBlocks ==
                   handleInsertBlock(blocks, menuIndex[1], type)
             IN  /\ blocks' = updatedBlocks
                 /\ notified' = <<updatedBlocks>>
          /\ showBlockMenu' = FALSE
          /\ selectedBlockId' = generateId
          /\ idsMade' = idsMade + 1
     ELSE /\ notified' = <<>>
          /\ showBlockMenu' = FALSE
          /\ UNCHANGED <<blocks, selectedBlockId, idsMade>>
  /\ lastOp' = [name |-> "selectType", type |-> type]
  /\ threw' = FALSE
  /\ UNCHANGED <<edits, mounted, firstBlocks, menuIndex, draggedIndex>>
  /\ UNCHANGED svcVars

\* BlockMenu onClose
onClose ==
  /\ mounted
  /\ showBlockMenu
  /\ showBlockMenu' = FALSE
  /\ lastOp' = [name |-> "closeMenu"]
  /\ notified' = <<>>
  /\ threw' = FALSE
  /\ UNCHANGED <<edits, mounted, blocks, firstBlocks, selectedBlockId,
                 menuIndex, draggedIndex, idsMade>>
  /\ UNCHANGED svcVars

handleDragStart(index) ==
  /\ mounted
  /\ ~showBlockMenu
  /\ draggedIndex' = <<index>>
  /\ lastOp' = [name |-> "dragStart", index |-> index]
  /\ notified' = <<>>
  /\ threw' = FALSE
  /\ UNCHANGED <<edits, mounted, blocks, firstBlocks, selectedBlockId,
                 showBlockMenu, menuIndex, idsMade>>
  /\ UNCHANGED svcVars

handleDragOver ==
  /\ mounted
  /\ ~showBlockMenu
  /\ lastOp' = [name |-> "dragOver"]
  /\ notified' = <<>>
  /\ threw' = FALSE
  /\ UNCHANGED <<edits, mounted, blocks, firstBlocks, selectedBlockId,
                 showBlockMenu, menuIndex, draggedIndex, idsMade>>
  /\ UNCHANGED svcVars

handleDrop(dropIndex) ==
  /\ mounted
  /\ ~showBlockMenu
  /\ lastOp' = [name |-> "drop", index |-> dropIndex]
  /\ IF draggedIndex = <<>> \/ draggedIndex = <<dropIndex>>
     THEN /\ notified' = <<>>
          /\ threw' = FALSE
          /\ UNCHANGED <<blocks, draggedIndex>>
     ELSE LET removed == SpliceRemoved(blocks, draggedIndex[1], 1)
              afterFirst == SpliceResult(blocks, draggedIndex[1], 1, <<>>)
              draggedBlock == IF removed = <<>> THEN Undefined
                              ELSE removed[1]
              spliced == SpliceResult(afterFirst, dropIndex, 0,
                                      <<draggedBlock>>)
          IN  IF draggedBlock = Undefined
              THEN \* b.order = i on the undefined element raises; the
                   \* elements before it are already written
                   LET written ==
                         SetOrders(blocks,
                                   SpliceStart(Len(afterFirst), dropIndex))
                   IN  /\ blocks' = written
                       /\ notified' = <<>>
                       /\ threw' = TRUE
                       /\ UNCHANGED draggedIndex
              ELSE LET updatedBlocks == SetOrders(spliced, Len(spliced))
                   IN  /\ blocks' = updatedBlocks
                            /\ notified' = <<updatedBlocks>>
                       /\ threw' = FALSE
                       /\ draggedIndex' = <<>>
  /\ UNCHANGED <<edits, mounted, firstBlocks, selectedBlockId, showBlockMenu,
                 menuIndex, idsMade>>
  /\ UNCHANGED svcVars

\* BlockRenderer's onDragEnd: the drag ends where no block takes the drop;
\* it clears the renderer's own isDragging flag and nothing of BlockEditor
onDragEnd ==
  /\ mounted
  /\ ~showBlockMenu
  /\ lastOp' = [name |-> "dragEnd"]
  /\ notified' = <<>>
  /\ threw' = FALSE
  /\ UNCHANGED <<edits, mounted, blocks, firstBlocks, selectedBlockId,
                 showBlockMenu, menuIndex, draggedIndex, idsMade>>
  /\ UNCHANGED svcVars

\* the index a rendered BlockRenderer passes to onDragStart and onDrop
Rendered == 0..(Len(blocks) - 1)

\* the index the three kinds of add button pass: 0, index + 1, blocks.length
AddPositions == 0..Len(blocks)

Next ==
  \/ MountEffect /\ UNCHANGED restVars
  \/ \E id \in IdsOf(blocks) \cup {AbsentId}, c \in EdContents,
        m \in EdPatches : handleUpdateBlock(id, c, m) /\ UNCHANGED restVars
  \/ \E id \in IdsOf(blocks) \cup {AbsentId} :
        handleDeleteBlock(id) /\ UNCHANGED restVars
  \/ \E id \in IdsOf(blocks) \cup {AbsentId} :
        handleDuplicateBlock(id) /\ UNCHANGED restVars
  \/ \E i \in AddPositions, t \in {<<>>} \cup {<<ty>> : ty \in EdTypes} :
        handleAddBlock(i, t) /\ UNCHANGED restVars
  \/ \E ty \in EdTypes : onSelectType(ty) /\ UNCHANGED restVars
  \/ onClose /\ UNCHANGED restVars
  \/ \E i \in Rendered : handleDragStart(i) /\ UNCHANGED restVars
  \/ handleDragOver /\ UNCHANGED restVars
  \/ \E i \in Rendered : handleDrop(i) /\ UNCHANGED restVars

Spec == Init /\ [][Next]_vars

\* The blocks prop is whatever sequence the note holds: the same component
\* mounted on sequences of two and three blocks, driven by the handlers
\* that change the structure of the sequence.
EdWideSeqs == { <<At(BlockA, 0), At(BlockB, 1)>>,
                <<At(BlockA, 0), At(BlockB, 1), At(BlockC, 2)>> }

InitWide ==
  /\ blocks \in EdWideSeqs
  /\ firstBlocks = blocks
  /\ mounted = FALSE
  /\ selectedBlockId = Null
  /\ showBlockMenu = FALSE
  /\ menuIndex = <<>>
  /\ draggedIndex = <<>>
  /\ idsMade = 0
  /\ edits = 0
  /\ lastOp = [name |-> "none"]
  /\ notified = <<>>
  /\ threw = FALSE
  /\ svcSeq = <<>>
  /\ svcIn = <<>>
  /\ svcOp = [name |-> "none"]
  /\ AppIdle

NextStruct ==
  \/ MountEffect /\ UNCHANGED restVars
  \/ \E id \in IdsOf(blocks) \cup {AbsentId} :
        handleDeleteBlock(id) /\ UNCHANGED restVars
  \/ \E id \in IdsOf(blocks) \cup {AbsentId} :
        handleDuplicateBlock(id) /\ UNCHANGED restVars
  \/ \E i \in AddPositions, t \in {<<>>} \cup {<<ty>> : ty \in EdTypes} :
        handleAddBlock(i, t) /\ UNCHANGED restVars
  \/ \E ty \in EdTypes : onSelectType(ty) /\ UNCHANGED restVars
  \/ onClose /\ UNCHANGED restVars

SpecWide == InitWide /\ [][NextStruct]_vars

\* Drag gestures on sequences of two and three blocks. A gesture starts
\* with a block's dragstart and ends with a drop on a block or, when no
\* block takes the drop, with the block's dragend; a block also takes the
\* drop of a drag that started on no block, since handleDragOver prevents
\* the default for every drag. The other handlers may run between.
DragStart(index) ==
  handleDragStart(index) /\ gesture' = <<blocks[index + 1].id>>

Drop(dropIndex) == handleDrop(dropIndex) /\ gesture' = <<>>

DragEnd == gesture # <<>> /\ onDragEnd /\ gesture' = <<>>

NextDrag ==
  \/ MountEffect /\ UNCHANGED restVars
  \/ \E id \in IdsOf(blocks) : handleDeleteBlock(id) /\ UNCHANGED restVars
  \/ \E id \in IdsOf(blocks) : handleDuplicateBlock(id) /\ UNCHANGED restVars
  \/ \E i \in Rendered : DragStart(i) /\ UNCHANGED appVars
  \/ handleDragOver /\ UNCHANGED restVars
  \/ \E i \in Rendered : Drop(i) /\ UNCHANGED appVars
  \/ DragEnd /\ UNCHANGED appVars

SpecDrag == InitWide /\ [][NextDrag]_vars

\* ------------------------------------------- App, Editor and the storage
\* The notes of the model: A and B hold blocks, F is flat. A note carries
\* blocks the way BLOCKS_SYSTEM.md describes it, in an optional blocks field.
Titles == {"t1", "t2"}
Contents == {"<p>c1</p>", "<p>c2</p>"}
UserId == "u"

\* content.replace(/<[^>]+>/g, '').substring(0, 100) on the contents above
Excerpt(c) == IF c = "<p>c1</p>" THEN "c1" ELSE "c2"

NoteOf(id) ==
  LET flat == [id |-> id, title |-> "t1", content |-> "<p>c1</p>",
               excerpt |-> "c1", notebookId |-> "nb"]
  IN  IF id = "A"
      THEN Merge(flat, [blocks |-> <<At(BlockA, 0), At(BlockB, 1)>>])
      ELSE IF id = "B" THEN Merge(flat, [blocks |-> <<At(BlockC, 0)>>])
      ELSE flat

\* note.blocks || []
BlocksOf(n) == IF "blocks" \in DOMAIN n THEN n.blocks ELSE <<>>

\* the columns of a row; tags, is_favorite, updated_at and created_at are
\* carried like notebook_id
mapNoteToDB(n, userId) ==
  [id |-> n.id, user_id |-> userId, title |-> n.title,
   content |-> n.content, excerpt |-> n.excerpt,
   notebook_id |-> n.notebookId]

mapNoteFromDB(n) ==
  [id |-> n.id, title |-> n.title, content |-> n.content,
   excerpt |-> n.excerpt, notebookId |-> n.notebook_id]

\* the note prop of Editor: notes.find(n => n.id === selectedNoteId)
note == notes[selectedNoteId]

\* what the debounce effect's timeout callback closes over
Closure(n, t, c) == [note |-> n, title |-> t, content |-> c]

\* Editor and BlockEditor before their effects run, on one of the notes ids
InitNotes(ids) ==
  /\ notes = [id \in ids |-> NoteOf(id)]
  /\ db = [id \in ids |-> mapNoteToDB(NoteOf(id), UserId)]
  /\ selectedNoteId \in ids
  /\ title = note.title
  /\ editorContent = note.content
  /\ blocks = BlocksOf(note)
  /\ useBlockEditor = (Len(BlocksOf(note)) > 0)
  /\ resetPending = FALSE
  /\ timer = <<Closure(note, title, editorContent)>>
  /\ entered = [id \in ids |->
                  [title |-> notes[id].title, content |-> notes[id].content]]
  /\ lastUpdate = <<>>
  /\ firstBlocks = blocks
  /\ mounted = FALSE
  /\ selectedBlockId = Null
  /\ showBlockMenu = FALSE
  /\ menuIndex = <<>>
  /\ draggedIndex = <<>>
  /\ gesture = <<>>
  /\ idsMade = 0
  /\ edits = 0
  /\ lastOp = [name |-> "none"]
  /\ notified = <<>>
  /\ threw = FALSE
  /\ svcSeq = <<>>
  /\ svcIn = <<>>
  /\ svcOp = [name |-> "none"]

\* BlockEditor as it is left by a step of Editor or App that runs none of
\* its handlers
NoHandler ==
  /\ lastOp' = [name |-> "none"]
  /\ notified' = <<>>
  /\ threw' = FALSE
  /\ UNCHANGED <<mounted, blocks, firstBlocks, selectedBlockId,
                 showBlockMenu, menuIndex, draggedIndex, idsMade, edits>>
  /\ UNCHANGED gesture
  /\ UNCHANGED svcVars

\* App.handleUpdateNote with the Editor's render that follows it: the row is
\* upserted, the note replaced by id, and the debounce effect, whose
\* dependency note changed, clears its timer and sets a new one
handleUpdateNote(updatedNote, by) ==
  /\ db' = [db EXCEPT ![updatedNote.id] = mapNoteToDB(updatedNote, UserId)]
  /\ notes' = [notes EXCEPT ![updatedNote.id] = updatedNote]
  /\ lastUpdate' = <<[by |-> by, note |-> updatedNote]>>
  /\ timer' = IF updatedNote.id = selectedNoteId
              THEN <<Closure(updatedNote, title, editorContent)>>
              ELSE IF by = "timer" THEN <<>> ELSE timer
  /\ UNCHANGED <<selectedNoteId, title, editorContent, useBlockEditor,
                 resetPending, entered>>

\* onBlocksChange as Editor passes it: setBlocks(updatedBlocks) and
\* onUpdate({...note, blocks: updatedBlocks}), once per sequence notified
onBlocksChange ==
  IF notified' = <<>>
  THEN UNCHANGED appVars
  ELSE handleUpdateNote(Merge(note, [blocks |-> notified'[1]]), "blocks")

\* BlockRenderer's onClick: onSelect(block.id) is setSelectedBlockId
onSelect(blockId) ==
  /\ mounted
  /\ ~showBlockMenu
  /\ selectedBlockId' = blockId
  /\ lastOp' = [name |-> "select", id |-> blockId]
  /\ notified' = <<>>
  /\ threw' = FALSE
  /\ UNCHANGED <<edits, mounted, blocks, firstBlocks, showBlockMenu,
                 menuIndex, draggedIndex, idsMade>>
  /\ UNCHANGED svcVars

\* the title input's onChange
SetTitle(t) ==
  /\ ~resetPending
  /\ t # title
  /\ title' = t
  /\ timer' = <<Closure(note, t, editorContent)>>
  /\ entered' = [entered EXCEPT ![selectedNoteId].title = t]
  /\ UNCHANGED <<notes, selectedNoteId, db, editorContent, useBlockEditor,
                 resetPending, lastUpdate>>
  /\ NoHandler

\* TiptapEditor's onChange, rendered when the block editor is not
SetContent(c) ==
  /\ ~resetPending
  /\ ~useBlockEditor
  /\ c # editorContent
  /\ editorContent' = c
  /\ timer' = <<Closure(note, title, c)>>
  /\ entered' = [entered EXCEPT ![selectedNoteId].content = c]
  /\ UNCHANGED <<notes, selectedNoteId, db, title, useBlockEditor,
                 resetPending, lastUpdate>>
  /\ NoHandler

\* App.handleSelectNote and the render it causes: Editor keeps its state,
\* the note.id effect queues its four updates, and the debounce effect
\* sets a timer that closes over the new note and the state not yet reset
SelectNote(id) ==
  /\ ~resetPending
  /\ id # selectedNoteId
  /\ selectedNoteId' = id
  /\ resetPending' = TRUE
  /\ timer' = <<Closure(notes[id], title, editorContent)>>
  /\ UNCHANGED <<notes, db, title, editorContent, useBlockEditor, entered,
                 lastUpdate>>
  /\ NoHandler

\* the render that applies the note.id effect's updates. BlockEditor keeps
\* its own state while it stays rendered and loses it when it is not.
ResetState ==
  /\ resetPending
  /\ resetPending' = FALSE
  /\ title' = note.title
  /\ editorContent' = note.content
  /\ blocks' = BlocksOf(note)
  /\ useBlockEditor' = (Len(BlocksOf(note)) > 0)
  /\ timer' = IF title' # title \/ editorContent' # editorContent
              THEN <<Closure(note, title', editorContent')>>
              ELSE timer
  /\ IF useBlockEditor /\ useBlockEditor'
     THEN UNCHANGED <<mounted, firstBlocks, selectedBlockId, showBlockMenu,
                      menuIndex, draggedIndex>>
     ELSE /\ mounted' = FALSE
          /\ firstBlocks' = blocks'
          /\ selectedBlockId' = Null
          /\ showBlockMenu' = FALSE
          /\ menuIndex' = <<>>
          /\ draggedIndex' = <<>>
  /\ lastOp' = [name |-> "none"]
  /\ notified' = <<>>
  /\ threw' = FALSE
  /\ entered' = [entered EXCEPT
                   ![selectedNoteId] = [title |-> note.title,
                                        content |-> note.content]]
  /\ UNCHANGED <<notes, selectedNoteId, db, lastUpdate, idsMade, edits,
                 gesture>>
  /\ UNCHANGED svcVars

\* the timeout's callback, a second after the effect set it
TimerFire ==
  /\ timer # <<>>
  /\ LET c == timer[1]
     IN  IF c.title # c.note.title \/ c.content # c.note.content
         THEN handleUpdateNote(
                Merge(c.note, [title |-> c.title, content |-> c.content,
                               excerpt |-> Excerpt(c.content)]), "timer")
         ELSE /\ timer' = <<>>
              /\ UNCHANGED <<notes, selectedNoteId, db, title, editorContent,
                             useBlockEditor, resetPending, entered,
                             lastUpdate>>
  /\ NoHandler

\* App.refreshData: setNotes(await StorageService.getNotes()); the note
\* prop is a new object, so the debounce effect sets its timer again
LoadNotes ==
  /\ ~resetPending
  /\ notes' = [id \in DOMAIN db |-> mapNoteFromDB(db[id])]
  /\ timer' = <<Closure(notes'[selectedNoteId], title, editorContent)>>
  /\ lastUpdate' = <<[by |-> "load"]>>
  /\ UNCHANGED <<selectedNoteId, db, title, editorContent, useBlockEditor,
                 resetPending, entered>>
  /\ NoHandler

\* the handlers run while BlockEditor is rendered and shows the open note
Shown == useBlockEditor /\ ~resetPending

\* Editor on a note with blocks and a flat one: edits of the title and of
\* the flat content, removals of blocks, note switches, timers and reloads
NextNote ==
  \/ Shown /\ MountEffect /\ onBlocksChange /\ UNCHANGED gesture
  \/ \E id \in IdsOf(blocks) :
        Shown /\ handleDeleteBlock(id) /\ onBlocksChange /\ UNCHANGED gesture
  \/ \E t \in Titles : SetTitle(t)
  \/ \E c \in Contents : SetContent(c)
  \/ \E id \in DOMAIN notes : SelectNote(id)
  \/ ResetState
  \/ TimerFire
  \/ LoadNotes

InitNote == InitNotes({"A", "F"})

SpecNote == InitNote /\ [][NextNote]_vars

\* BlockEditor kept rendered while the open note changes between two notes
\* that hold blocks
NextSwitch ==
  \/ Shown /\ MountEffect /\ onBlocksChange /\ UNCHANGED gesture
  \/ \E id \in IdsOf(blocks) : Shown /\ onSelect(id) /\ UNCHANGED restVars
  \/ \E id \in IdsOf(blocks) :
        Shown /\ handleDeleteBlock(id) /\ onBlocksChange /\ UNCHANGED gesture
  \/ \E i \in AddPositions :
        Shown /\ handleAddBlock(i, <<>>) /\ UNCHANGED restVars
  \/ \E ty \in EdTypes :
        Shown /\ onSelectType(ty) /\ onBlocksChange /\ UNCHANGED gesture
  \/ \E id \in DOMAIN notes : SelectNote(id)
  \/ ResetState

InitSwitch == InitNotes({"A", "B"})

SpecSwitch == InitSwitch /\ [][NextSwitch]_vars

\* --------------------------------------------------- blocks <-> markup
\* A markup string is modelled as the sequence of its lexemes: a tag or a
\* character reference written out in full, or one character of text.
\* The content of a block handed to the converter is such a sequence.
MaxTok == 4

MaxConvLen == 2

TagNames == {"p", "h1", "h2", "h3", "blockquote", "div", "pre", "ul", "ol",
             "span"}
Headings == {"h1", "h2", "h3"}
\* start tags that close an open p element before they are inserted
Blockish == {"p", "div", "blockquote", "pre", "ul", "ol"}

StartTag(n) == "<" \o n \o ">"
EndTag(n) == "</" \o n \o ">"
IsStartTag(t) == \E n \in TagNames : t = StartTag(n)
IsEndTag(t) == \E n \in TagNames : t = EndTag(n)
NameOf(t) == CHOOSE n \in TagNames : t = StartTag(n) \/ t = EndTag(n)

\* the divider as blocksToHtml writes it, and as innerHTML serialises it
HrTag == "<hr />"
HrSerialised == "<hr>"

\* text: a digit, a space, a less-than sign that opens no tag (a digit,
\* a space, another less-than sign or the end of the string follows it),
\* and the character reference of the less-than sign
TextChars == {"1", " ", "<"}
LtRef == "&lt;"
IsCharToken(t) == t \in TextChars \cup {LtRef}
\* the tokenizer decodes a character reference
CharOf(t) == IF t = LtRef THEN "<" ELSE t
\* innerHTML escapes the text of an element
Escaped(c) == IF c = "<" THEN LtRef ELSE c

TEXT_NODE == 3
ELEMENT_NODE == 1

\* the lexemes the model of the parser covers
Parseable ==
  {StartTag(n) : n \in TagNames} \cup {EndTag(n) : n \in TagNames}
    \cup {HrTag, LtRef} \cup TextChars

\* ---- DOMParser.parseFromString(html, 'text/html'): tree construction.
\* The parser state is the stack of open elements below body, each with
\* the serialisation of the children it has so far, and the child nodes
\* body has so far. An element becomes a child of its parent when it is
\* opened; nothing else is added to the parent while it is open, so it is
\* recorded when it is popped.
NoTree == [stack |-> <<>>, nodes |-> <<>>]

Top(st) == st.stack[Len(st.stack)]

InStack(st, tags) == \E i \in 1..Len(st.stack) : st.stack[i].tag \in tags

Push(st, n) ==
  [st EXCEPT !.stack = Append(@, [tag |-> n, inner |-> <<>>])]

\* add serialised children to the current node, which is not body
AddInner(stack, toks) ==
  [stack EXCEPT ![Len(stack)].inner = @ \o toks]

PopOne(st) ==
  LET el   == Top(st)
      rest == SubSeq(st.stack, 1, Len(st.stack) - 1)
  IN  IF rest = <<>>
      THEN [stack |-> rest,
            nodes |-> Append(st.nodes,
                             [nodeType |-> ELEMENT_NODE, tagName |-> el.tag,
                              innerHTML |-> el.inner])]
      ELSE [stack |-> AddInner(rest, <<StartTag(el.tag)>> \o el.inner
                                       \o <<EndTag(el.tag)>>),
            nodes |-> st.nodes]

\* pop elements until one with a tag of tags has been popped
RECURSIVE PopUntil(_, _)
PopUntil(st, tags) ==
  IF st.stack = <<>> THEN st
  ELSE IF Top(st).tag \in tags THEN PopOne(st)
  ELSE PopUntil(PopOne(st), tags)

RECURSIVE PopAll(_)
PopAll(st) == IF st.stack = <<>> THEN st ELSE PopAll(PopOne(st))

\* "close a p element" when one is in button scope
CloseP(st) == IF InStack(st, {"p"}) THEN PopUntil(st, {"p"}) ELSE st

\* "insert a character": appended to the text node that ends the current
\* node's children, if there is one
InsertChar(st, c) ==
  IF st.stack # <<>>
  THEN [st EXCEPT !.stack = AddInner(@, <<Escaped(c)>>)]
  ELSE LET n == Len(st.nodes)
       IN  IF n > 0 /\ st.nodes[n].nodeType = TEXT_NODE
           THEN [st EXCEPT !.nodes[n].textContent = Append(@, c)]
           ELSE [st EXCEPT !.nodes =
                   Append(@, [nodeType |-> TEXT_NODE,
                              textContent |-> <<c>>])]

\* a void element: inserted and popped at once
InsertHr(st) ==
  IF st.stack # <<>>
  THEN [st EXCEPT !.stack = AddInner(@, <<HrSerialised>>)]
  ELSE [st EXCEPT !.nodes =
          Append(@, [nodeType |-> ELEMENT_NODE, tagName |-> "hr",
                     innerHTML |-> <<>>])]

\* the "in body" insertion mode, one token
InBody(st, t) ==
  IF IsCharToken(t) THEN InsertChar(st, CharOf(t))
  ELSE IF t = HrTag THEN InsertHr(CloseP(st))
  ELSE IF IsStartTag(t)
  THEN LET n == NameOf(t)
       IN  IF n \in Blockish THEN Push(CloseP(st), n)
           ELSE IF n \in Headings
           THEN LET closed == CloseP(st)
                IN  IF closed.stack # <<>> /\ Top(closed).tag \in Headings
                    THEN Push(PopOne(closed), n)
                    ELSE Push(closed, n)
           ELSE Push(st, n)
  ELSE LET n == NameOf(t)
       IN  IF n = "p"
           THEN IF InStack(st, {"p"}) THEN PopUntil(st, {"p"})
                ELSE PopOne(Push(st, "p"))
           ELSE IF n \in Headings
           THEN IF InStack(st, Headings) THEN PopUntil(st, Headings)
                ELSE st
           ELSE IF n \in Blockish
           THEN IF InStack(st, {n}) THEN PopUntil(st, {n}) ELSE st
           ELSE \* any other end tag: the current node, or ignored at the
                \* first special element
                IF st.stack # <<>> /\ Top(st).tag = n THEN PopOne(st)
                ELSE st

RECURSIVE TreeFrom(_, _, _)
TreeFrom(st, html, i) ==
  IF i > Len(html) THEN PopAll(st)
  ELSE TreeFrom(InBody(st, html[i]), html, i + 1)

\* before body exists, white space and end tags are ignored
RECURSIVE FirstInBody(_, _)
FirstInBody(html, i) ==
  IF i > Len(html) THEN i
  ELSE IF html[i] = " " \/ IsEndTag(html[i]) THEN FirstInBody(html, i + 1)
  ELSE i

\* doc.body.childNodes
parseFromString(html) == TreeFrom(NoTree, html, FirstInBody(html, 1)).nodes

\* ---- htmlToBlocks
\* node.textContent?.trim() is a non-empty string
TrimsToText(text) == \E i \in 1..Len(text) : text[i] # " "

\* the switch with every tag left at the default
TypeOfTagDefault(n) == "paragraph"

\* the switch on element.tagName.toLowerCase()
TypeOfTag(n) ==
  CASE n = "h1" -> "heading1"
    [] n = "h2" -> "heading2"
    [] n = "h3" -> "heading3"
    [] n = "blockquote" -> "quote"
    [] n = "pre" -> "code"
    [] n = "hr" -> "divider"
    [] n = "ul" -> "bulletList"
    [] n = "ol" -> "numberedList"
    [] OTHER -> "paragraph"

\* the k-th id generateId returns from now on
IdAfter(k) == "n" \o ToString(idsMade + k)

\* htmlToBlocks with the counter advanced at every node
RECURSIVE BlocksOfNodesCountingAll(_, _, _)
BlocksOfNodesCountingAll(nodes, i, acc) ==
  IF i > Len(nodes) THEN acc
  ELSE LET node == nodes[i]
       IN  IF node.nodeType = TEXT_NODE /\ TrimsToText(node.textContent)
           THEN BlocksOfNodesCountingAll(nodes, i + 1,
                  Append(acc, [id |-> IdAfter(Len(acc) + 1),
                               type |-> "paragraph",
                               content |-> node.textContent,
                               order |-> i - 1]))
           ELSE IF node.nodeType = ELEMENT_NODE
           THEN BlocksOfNodesCountingAll(nodes, i + 1,
                  Append(acc, [id |-> IdAfter(Len(acc) + 1),
                               type |-> TypeOfTag(node.tagName),
                               content |-> node.innerHTML,
                               order |-> i - 1]))
           ELSE BlocksOfNodesCountingAll(nodes, i + 1, acc)

\* doc.body.childNodes.forEach(node => ...): acc is the blocks array so
\* far, and order is its length, one push for each order++
RECURSIVE BlocksOfNodes(_, _, _)
BlocksOfNodes(nodes, i, acc) ==
  IF i > Len(nodes) THEN acc
  ELSE LET node == nodes[i]
           order == Len(acc)
       IN  IF node.nodeType = TEXT_NODE /\ TrimsToText(node.textContent)
           THEN BlocksOfNodes(nodes, i + 1,
                  Append(acc, [id |-> IdAfter(Len(acc) + 1),
                               type |-> "paragraph",
                               content |-> node.textContent,
                               order |-> order]))
           ELSE IF node.nodeType = ELEMENT_NODE
           THEN BlocksOfNodes(nodes, i + 1,
                  Append(acc, [id |-> IdAfter(Len(acc) + 1),
                               type |-> TypeOfTag(node.tagName),
                               content |-> node.innerHTML,
                               order |-> order]))
           ELSE BlocksOfNodes(nodes, i + 1, acc)

htmlToBlocksCountingAll(html) ==
  BlocksOfNodesCountingAll(parseFromString(html), 1, <<>>)

htmlToBlocks(html) == BlocksOfNodes(parseFromString(html), 1, <<>>)

\* ---- blocksToHtml
\* blocks.sort((a, b) => a.order - b.order): stable, and in place
RECURSIVE InsertByOrder(_, _)
InsertByOrder(sorted, b) ==
  IF sorted = <<>> THEN <<b>>
  ELSE IF sorted[Len(sorted)].order <= b.order THEN Append(sorted, b)
  ELSE Append(InsertByOrder(SubSeq(sorted, 1, Len(sorted) - 1), b),
              sorted[Len(sorted)])

RECURSIVE SortByOrder(_)
SortByOrder(arr) ==
  IF arr = <<>> THEN <<>>
  ELSE InsertByOrder(SortByOrder(SubSeq(arr, 1, Len(arr) - 1)),
                     arr[Len(arr)])

\* block.metadata?.checked ? 'true' : 'false'
CheckedText(block) ==
  IF "metadata" \in DOMAIN block /\ "checked" \in DOMAIN block.metadata
     /\ block.metadata.checked = TRUE
  THEN "true" ELSE "false"

TaskOpen(checked) ==
  "<li data-type=\"taskItem\" data-checked=\"" \o checked \o "\">"

\* the switch on block.type
Fragment(block) ==
  CASE block.type = "paragraph" ->
         <<"<p>">> \o block.content \o <<"</p>">>
    [] block.type = "heading1" ->
         <<"<h1>">> \o block.content \o <<"</h1>">>
    [] block.type = "heading2" ->
         <<"<h2>">> \o block.content \o <<"</h2>">>
    [] block.type = "heading3" ->
         <<"<h3>">> \o block.content \o <<"</h3>">>
    [] block.type = "bulletList" ->
         <<"<ul>", "<li>">> \o block.content \o <<"</li>", "</ul>">>
    [] block.type = "numberedList" ->
         <<"<ol>", "<li>">> \o block.content \o <<"</li>", "</ol>">>
    [] block.type = "quote" ->
         <<"<blockquote>">> \o block.content \o <<"</blockquote>">>
    [] block.type = "code" ->
         <<"<pre>", "<code>">> \o block.content \o <<"</code>", "</pre>">>
    [] block.type = "divider" -> <<HrTag>>
    [] block.type = "task" ->
         <<TaskOpen(CheckedText(block))>> \o block.content \o <<"</li>">>
    [] OTHER -> block.content

RECURSIVE Joined(_)
Joined(frags) ==
  IF frags = <<>> THEN <<>> ELSE Head(frags) \o Joined(Tail(frags))

\* blocksToHtml without the sort
blocksToHtmlUnsorted(blks) ==
  Joined([i \in 1..Len(blks) |-> Fragment(blks[i])])

blocksToHtml(blks) ==
  LET sorted == SortByOrder(blks)
  IN  Joined([i \in 1..Len(sorted) |-> Fragment(sorted[i])])

\* ---- the converter driven with bounded inputs
ConvTypes == {"paragraph", "heading1", "heading2", "heading3", "bulletList",
              "numberedList", "quote", "code", "divider", "image"}

ConvBlock(type, content) == [type |-> type, content |-> content]

\* every type with a one-character content, the text types with other
\* texts, and the task with its three states of metadata
ConvTemplates ==
  {ConvBlock(t, <<"1">>) : t \in ConvTypes}
    \cup {ConvBlock("paragraph", <<>>), ConvBlock("heading1", <<" ", "1">>),
          ConvBlock("quote", <<"<">>)}
    \cup {[type |-> "task", content |-> <<"1">>,
           metadata |-> [checked |-> c]] : c \in BOOLEAN}
    \cup {[type |-> "task", content |-> <<"1">>]}

ConvOrders == 0..(MaxConvLen - 1)

\* the sequence of the chosen templates and orders, with ids by position
ConvSeq(f) ==
  [i \in DOMAIN f |->
     Merge(f[i][1], [id |-> "b" \o ToString(i), order |-> f[i][2]])]

HtmlAlphabet == {"<p>", "</p>", "<h1>", "</h1>", "<blockquote>",
                 "</blockquote>", HrTag, "1", " ", "<", LtRef}

HtmlExamples ==
  { <<"<div>", "<span>", "1", "</span>", "</div>">>,
    <<"1", " ", "<", "<", "<">>,
    <<"<h2>", "1", "</h2>", " ", "<h3>", "</h3>">>,
    <<"<pre>", "1", "</pre>", "<ul>", "1", "</ul>">>,
    <<"<ol>", "</ol>", "<span>", "1", "</span>">>,
    <<"<p>", "1", "<div>", "1", "</p>">> }

HtmlInputs ==
  UNION { [1..k -> HtmlAlphabet] : k \in 0..MaxTok } \cup HtmlExamples

ConvInit ==
  /\ \/ /\ \E k \in 0..MaxConvLen :
             \E f \in [1..k -> ConvTemplates \X ConvOrders] :
               svcIn = ConvSeq(f)
        /\ svcOp = [name |-> "given", kind |-> "blocks"]
     \/ /\ svcIn \in HtmlInputs
        /\ svcOp = [name |-> "given", kind |-> "html"]
  /\ svcSeq = <<>>
  /\ EdIdle
  /\ AppIdle

\* blocksToHtml(blocks): svcIn is the caller's array after the call
ConvToHtml ==
  /\ svcOp = [name |-> "given", kind |-> "blocks"]
  /\ svcOp' = [name |-> "blocksToHtml", blocks |-> svcIn]
  /\ svcIn' = SortByOrder(svcIn)
  /\ svcSeq' = blocksToHtml(svcIn)
  /\ UNCHANGED edVars
  /\ UNCHANGED restVars

\* htmlToBlocks(html)
ConvToBlocks ==
  /\ svcOp = [name |-> "given", kind |-> "html"]
  /\ svcOp' = [name |-> "htmlToBlocks", nodes |-> parseFromString(svcIn)]
  /\ svcSeq' = htmlToBlocks(svcIn)
  /\ UNCHANGED svcIn
  /\ UNCHANGED edVars
  /\ UNCHANGED restVars

\* htmlToBlocks(blocksToHtml(blocks))
ConvRoundTrip ==
  /\ svcOp.name = "blocksToHtml"
  /\ \A i \in 1..Len(svcSeq) : svcSeq[i] \in Parseable
  /\ svcOp' = [name |-> "roundTrip", blocks |-> svcOp.blocks,
               html |-> svcSeq]
  /\ svcSeq' = htmlToBlocks(svcSeq)
  /\ UNCHANGED svcIn
  /\ UNCHANGED edVars
  /\ UNCHANGED restVars

ConvNext == ConvToHtml \/ ConvToBlocks \/ ConvRoundTrip

SpecConv == ConvInit /\ [][ConvNext]_vars

\* ------------------------------------------------------------ vocabulary
\* order equals array index for every element
OrderInv(seq) == \A i \in 1..Len(seq) : Get(seq[i], "order") = i - 1

\* a block without its order property
StripOrder(b) == [k \in (DOMAIN b) \ {"order"} |-> b[k]]

\* the same elements in the same positions, order values aside
SameModOrder(s, t) ==
  /\ Len(s) = Len(t)
  /\ \A i \in 1..Len(s) : StripOrder(s[i]) = StripOrder(t[i])

\* seq without its p-th element (1-based)
Without(seq, p) == SubSeq(seq, 1, p - 1) \o SubSeq(seq, p + 1, Len(seq))

Clamp(i, lo, hi) == Min(Max(i, lo), hi)

\* C1: every sequence a BlockEditor handler passes to onBlocksChange has
\* order equal to array index on every block.
C1_NotifiedOrderInvariant ==
  \A k \in 1..Len(notified) : OrderInv(notified[k])

\* C3: once mounted, the BlockEditor never holds, and no handler ever
\* passes to onBlocksChange, an empty block sequence.
C3_NeverEmpty ==
  /\ mounted => Len(blocks) >= 1
  /\ \A k \in 1..Len(notified) : Len(notified[k]) >= 1

\* a drop whose recorded drag index is past the end of a one-block sequence
C3_Witness ==
  /\ lastOp.name = "drop"
  /\ threw
  /\ Len(blocks) = 1

\* C4: deleting the only block of a one-block sequence leaves one block
\* with the same id, type, metadata and order and with empty content.
C4_DeleteSoleBlockClears ==
  [][ ( /\ lastOp'.name = "delete"
        /\ Len(blocks) = 1
        /\ IdIs(blocks[1], lastOp'.id) ) =>
      ( /\ Len(blocks') = 1
        /\ blocks'[1].id = blocks[1].id
        /\ blocks'[1].type = blocks[1].type
        /\ blocks'[1].metadata = blocks[1].metadata
        /\ blocks'[1].order = blocks[1].order
        /\ blocks'[1].content = ""
        /\ notified' = <<blocks'>> ) ]_vars

\* the sole block, which had content, was the target and is still there
C4_Witness ==
  /\ lastOp.name = "delete"
  /\ Len(blocks) = 1
  /\ IdIs(blocks[1], lastOp.id)
  /\ blocks[1].type = "task"
  /\ blocks[1].content = ""
  /\ notified = <<blocks>>

\* C10: handleUpdateBlock(blockId, content, patch) changes the content and
\* metadata of the target only: its id, type and order, the length, the
\* array order and every other block stay; the patch is overlaid on the
\* old metadata (an omitted patch leaves it); an unknown id changes nothing.
C10_UpdateFrame ==
  [][ lastOp'.name = "update" =>
      LET id == lastOp'.id
          m  == Spread(lastOp'.metadata)
      IN  /\ Len(blocks') = Len(blocks)
          /\ notified' = <<blocks'>>
          /\ \A i \in 1..Len(blocks) :
               IF IdIs(blocks[i], id)
               THEN /\ DOMAIN blocks'[i] = DOMAIN blocks[i]
                    /\ blocks'[i].id = blocks[i].id
                    /\ blocks'[i].type = blocks[i].type
                    /\ blocks'[i].order = blocks[i].order
                    /\ blocks'[i].content = lastOp'.content
                    /\ DOMAIN blocks'[i].metadata =
                         (DOMAIN blocks[i].metadata) \cup (DOMAIN m)
                    /\ \A k \in DOMAIN m : blocks'[i].metadata[k] = m[k]
                    /\ \A k \in (DOMAIN blocks[i].metadata) \ (DOMAIN m) :
                         blocks'[i].metadata[k] = blocks[i].metadata[k]
               ELSE blocks'[i] = blocks[i]
          /\ ~HasId(blocks, id) => blocks' = blocks ]_vars

\* a patch with a new key was overlaid on metadata that had another key
C10_Witness ==
  /\ lastOp.name = "update"
  /\ lastOp.metadata # Undefined
  /\ \E i \in 1..Len(blocks) :
       /\ IdIs(blocks[i], lastOp.id)
       /\ DOMAIN blocks[i].metadata = {"checked", "url"}
       /\ blocks[i].content = lastOp.content

\* C2: every sequence produced by insertBlock, removeBlock or moveBlock,
\* whatever the arguments and whatever was composed before, has order
\* equal to array index on every element.
C2_OrderInvariant ==
  svcOp.name \in {"insert", "remove", "move"} => OrderInv(svcSeq)

\* an insert at a negative index into a sequence whose orders were wrong
C2_Witness ==
  /\ svcOp.name = "insert"
  /\ svcOp.index < 0
  /\ ~OrderInv(svcIn)
  /\ Len(svcSeq) = 3

\* C5: insertBlock(seq, i, b), b.id new to seq, has length n+1, holds b
\* at the index obtained by clamping i to [0, n], and keeps the blocks of
\* seq in their relative order.
C5_InsertClamped ==
  svcOp.name = "insert" =>
    LET n   == Len(svcIn)
        pos == Clamp(svcOp.index, 0, n)
    IN  /\ Len(svcSeq) = n + 1
        /\ getBlockIndex(svcSeq, svcOp.block.id) = pos
        /\ SameModOrder(Without(svcSeq, pos + 1), svcIn)

\* C6: for valid positions i, j, moveBlock(seq, i, j) has the length of
\* seq, holds at j the block that was at i, keeps the other blocks in
\* their relative order, and changes nothing but order values.
C6_MovePermutation ==
  ( /\ svcOp.name = "move"
    /\ svcOp.fromIndex \in 0..(Len(svcIn) - 1)
    /\ svcOp.toIndex \in 0..(Len(svcIn) - 1) ) =>
    /\ Len(svcSeq) = Len(svcIn)
    /\ StripOrder(svcSeq[svcOp.toIndex + 1]) =
         StripOrder(svcIn[svcOp.fromIndex + 1])
    /\ SameModOrder(Without(svcSeq, svcOp.toIndex + 1),
                    Without(svcIn, svcOp.fromIndex + 1))

\* the three-block reorder: [A, B, C] moved 0 to 2 gives [B, C, A]
C6_Witness ==
  /\ svcOp.name = "move"
  /\ svcOp.fromIndex = 0
  /\ svcOp.toIndex = 2
  /\ Len(svcIn) = 3
  /\ \A i \in 1..3 : "id" \in DOMAIN svcIn[i]
  /\ <<svcSeq[1].id, svcSeq[2].id, svcSeq[3].id>> =
       <<svcIn[2].id, svcIn[3].id, svcIn[1].id>>

\* C7: for a fromIndex or toIndex that is no position of the sequence,
\* moveBlock returns the sequence unchanged or the move with the indices
\* clamped into range (same length, same ids).
C7_MoveInvalidClampOrNoop ==
  ( /\ svcOp.name = "move"
    /\ \/ svcOp.fromIndex \notin 0..(Len(svcIn) - 1)
       \/ svcOp.toIndex \notin 0..(Len(svcIn) - 1) ) =>
    LET n == Len(svcIn)
    IN  \/ svcSeq = svcIn
        \/ svcSeq = Renumbered(svcIn)
        \/ /\ n > 0
           /\ svcSeq = moveBlock(svcIn, Clamp(svcOp.fromIndex, 0, n - 1),
                                 Clamp(svcOp.toIndex, 0, n - 1))

\* C8: removeBlock(seq, id) is seq without the block of that id, the rest
\* in their relative order and renumbered by position; seq itself
\* (renumbered) when id is absent; and removing again changes nothing.
C8_RemoveFilters ==
  svcOp.name = "remove" =>
    /\ ~HasId(svcSeq, svcOp.id)
    /\ OrderInv(svcSeq)
    /\ IF HasId(svcIn, svcOp.id)
       THEN SameModOrder(svcSeq,
                         Without(svcIn, getBlockIndex(svcIn, svcOp.id) + 1))
       ELSE SameModOrder(svcSeq, svcIn)
    /\ removeBlock(svcSeq, svcOp.id) = svcSeq

\* a block removed from the middle, so that a later block is renumbered
C8_Witness ==
  /\ svcOp.name = "remove"
  /\ Len(svcIn) = 3
  /\ getBlockIndex(svcIn, svcOp.id) = 1
  /\ Len(svcSeq) = 2

\* C9: updateBlock(seq, id, {metadata: m}) overlays m on the target's
\* previous metadata: previous keys not in m keep their value.
C9_UpdateMergesMetadata ==
  ( /\ svcOp.name = "update"
    /\ "metadata" \in DOMAIN svcOp.updates ) =>
    \A i \in 1..Len(svcIn) :
      IdIs(svcIn[i], svcOp.id) =>
        svcSeq[i].metadata =
          Merge(svcIn[i].metadata, svcOp.updates.metadata)

\* C11: duplicating the block B found at index k of a sequence of length n
\* gives a sequence of length n+1 whose element k+1 has B's type, content
\* and metadata and an id that no block of the sequence had, with B still
\* at index k and the original blocks in their relative order; for an id
\* that is not in the sequence nothing changes and nothing is notified.
C11_DuplicateClones ==
  [][ lastOp'.name = "duplicate" =>
        LET k == getBlockIndex(blocks, lastOp'.id)
        IN  IF k = 0 - 1
            THEN blocks' = blocks /\ notified' = <<>>
            ELSE /\ notified' = <<blocks'>>
                 /\ Len(blocks') = Len(blocks) + 1
                 /\ blocks'[k + 2].type = blocks[k + 1].type
                 /\ blocks'[k + 2].content = blocks[k + 1].content
                 /\ blocks'[k + 2].metadata = blocks[k + 1].metadata
                 /\ blocks'[k + 2].id \notin IdsOf(blocks)
                 /\ blocks'[k + 1].id = lastOp'.id
                 /\ SameModOrder(Without(blocks', k + 2), blocks) ]_vars

\* the first of two blocks was duplicated: its clone lies between them
C11_Witness ==
  /\ lastOp = [name |-> "duplicate", id |-> "a"]
  /\ Len(blocks) = 3
  /\ blocks[1].id = "a"
  /\ blocks[2].id \notin {"a", "b"}
  /\ blocks[2].content = "x"
  /\ blocks[3].id = "b"

\* C12: handleAddBlock(index, type) with a type notifies one sequence: the
\* blocks the editor held just before the call, content and metadata as
\* they were, plus one new block at position index with a fresh id, the
\* given type, empty content and empty metadata; that block is selected.
C12_AddTypedInsertsIntoCurrent ==
  [][ (lastOp'.name = "add" /\ lastOp'.type # <<>>) =>
        LET p == lastOp'.index + 1
        IN  /\ Len(notified') = 1
            /\ Len(notified'[1]) = Len(blocks) + 1
            /\ notified'[1][p].id \notin IdsOf(blocks)
            /\ notified'[1][p].type = lastOp'.type[1]
            /\ notified'[1][p].content = ""
            /\ notified'[1][p].metadata = EmptyObj
            /\ SameModOrder(Without(notified'[1], p), blocks)
            /\ selectedBlockId' = notified'[1][p].id ]_vars

WellFormed(b) ==
  /\ b # Undefined
  /\ {"id", "type", "content", "order"} \subseteq DOMAIN b

\* C14: no BlockEditor handler raises, whatever ids and indices it is
\* given and whatever drag index was recorded before the sequence
\* changed, and the sequence holds only well-formed blocks.
C14_NoHandlerThrows ==
  /\ ~threw
  /\ \A i \in 1..Len(blocks) : WellFormed(blocks[i])

\* the ids of a sequence, by position
IdSeq(seq) == [i \in 1..Len(seq) |-> seq[i].id]

\* no two blocks of the sequence have the same id
DistinctIds(seq) ==
  \A i, j \in 1..Len(seq) : seq[i].id = seq[j].id => i = j

\* C15: from a sequence with pairwise distinct ids every handler leaves a
\* sequence with pairwise distinct ids, and no handler changes the id of a
\* block: a block that keeps its place keeps its id, and an id found
\* before and after the step is on a block of the same type.
C15_IdsUniqueAndStable ==
  [][ DistinctIds(blocks) =>
        /\ DistinctIds(blocks')
        /\ \A i \in 1..Len(blocks') : \A j \in 1..Len(blocks) :
              blocks'[i].id = blocks[j].id =>
                blocks'[i].type = blocks[j].type
        /\ ( /\ lastOp'.name \in {"mount", "update", "delete"}
             /\ Len(blocks') = Len(blocks) ) =>
              IdSeq(blocks') = IdSeq(blocks) ]_vars

\* a block was duplicated: two blocks, two ids
C15_Witness ==
  /\ lastOp.name = "duplicate"
  /\ Len(blocks) = 2
  /\ blocks[1].id = lastOp.id
  /\ blocks[2].id # blocks[1].id
  /\ blocks[2].type = blocks[1].type

\* the operations that exist to create a block at the user's request
UserCreates == {"add", "selectType", "duplicate"}

\* C16: mounted on an empty sequence the editor notifies one sequence of
\* exactly one paragraph block with empty content, empty metadata and
\* order 0; mounted on a non-empty sequence it notifies nothing and
\* creates nothing; and no step other than mount, add, type selection
\* and duplicate brings in a block that was not there.
C16_OnlyMountCreatesUnasked ==
  [][ /\ (lastOp'.name = "mount" /\ Len(blocks) = 0) =>
          /\ Len(notified') = 1
          /\ Len(notified'[1]) = 1
          /\ notified'[1][1].type = "paragraph"
          /\ notified'[1][1].content = ""
          /\ notified'[1][1].metadata = EmptyObj
          /\ notified'[1][1].order = 0
          /\ blocks' = notified'[1]
      /\ (lastOp'.name = "mount" /\ Len(blocks) > 0) =>
          /\ notified' = <<>>
          /\ blocks' = blocks
      /\ lastOp'.name \notin (UserCreates \cup {"mount"}) =>
          /\ IdsOf(blocks') \subseteq IdsOf(blocks)
          /\ Len(blocks') <= Len(blocks) ]_vars

\* the editor was mounted on an empty sequence
C16_Witness ==
  /\ lastOp.name = "mount"
  /\ firstBlocks = <<>>
  /\ Len(blocks) = 1
  /\ notified = <<blocks>>

\* the opening and closing markup the fragment table gives a block
TableOpen(b) ==
  CASE b.type = "paragraph" -> <<"<p>">>
    [] b.type = "heading1" -> <<"<h1>">>
    [] b.type = "heading2" -> <<"<h2>">>
    [] b.type = "heading3" -> <<"<h3>">>
    [] b.type = "bulletList" -> <<"<ul>", "<li>">>
    [] b.type = "numberedList" -> <<"<ol>", "<li>">>
    [] b.type = "quote" -> <<"<blockquote>">>
    [] b.type = "code" -> <<"<pre>", "<code>">>
    [] b.type = "divider" -> <<"<hr />">>
    [] b.type = "task" ->
         IF /\ "metadata" \in DOMAIN b
            /\ "checked" \in DOMAIN b.metadata
            /\ b.metadata.checked = TRUE
         THEN <<"<li data-type=\"taskItem\" data-checked=\"true\">">>
         ELSE <<"<li data-type=\"taskItem\" data-checked=\"false\">">>
    [] OTHER -> <<>>

TableClose(b) ==
  CASE b.type = "paragraph" -> <<"</p>">>
    [] b.type = "heading1" -> <<"</h1>">>
    [] b.type = "heading2" -> <<"</h2>">>
    [] b.type = "heading3" -> <<"</h3>">>
    [] b.type = "bulletList" -> <<"</li>", "</ul>">>
    [] b.type = "numberedList" -> <<"</li>", "</ol>">>
    [] b.type = "quote" -> <<"</blockquote>">>
    [] b.type = "code" -> <<"</code>", "</pre>">>
    [] b.type = "task" -> <<"</li>">>
    [] OTHER -> <<>>

TableFragment(b) ==
  TableOpen(b) \o (IF b.type = "divider" THEN <<>> ELSE b.content)
    \o TableClose(b)

\* the arrangements of the positions of seq in ascending order of order
Ascending(seq) ==
  { f \in [1..Len(seq) -> 1..Len(seq)] :
      /\ \A i, j \in 1..Len(seq) : f[i] = f[j] => i = j
      /\ \A i \in 1..(Len(seq) - 1) :
            seq[f[i]].order <= seq[f[i + 1]].order }

\* C17: blocksToHtml(seq) is the concatenation, without separators and in
\* ascending order of the order field whatever the array positions, of
\* the table's fragment for each block: its content between the tags of
\* its type, <hr /> alone for a divider, data-checked "true" on a task
\* exactly when metadata.checked is truthy, the bare content otherwise.
C17_HtmlIsFragmentsByOrder ==
  svcOp.name = "blocksToHtml" =>
    \E f \in Ascending(svcOp.blocks) :
      svcSeq = Joined([i \in 1..Len(svcOp.blocks) |->
                         TableFragment(svcOp.blocks[f[i]])])

\* a checked task placed first with order 1 and a divider placed second
\* with order 0 were converted: the divider's fragment comes first
C17_Witness ==
  /\ svcOp.name = "blocksToHtml"
  /\ Len(svcOp.blocks) = 2
  /\ svcOp.blocks[1].type = "task"
  /\ svcOp.blocks[1].order = 1
  /\ svcOp.blocks[2].order = 0
  /\ svcSeq = <<"<hr />",
                "<li data-type=\"taskItem\" data-checked=\"true\">",
                "1", "</li>">>

\* the tag table: the type given to each listed tag
TagTable ==
  [h1 |-> "heading1", h2 |-> "heading2", h3 |-> "heading3",
   blockquote |-> "quote", pre |-> "code", hr |-> "divider",
   ul |-> "bulletList", ol |-> "numberedList"]

\* a top-level node that yields a block: an element, or a text node with
\* a character that is not white space
Yields(node) ==
  \/ node.nodeType = ELEMENT_NODE
  \/ /\ node.nodeType = TEXT_NODE
     /\ \E i \in 1..Len(node.textContent) : node.textContent[i] # " "

\* C18: htmlToBlocks gives one block for each top-level element node and
\* each top-level text node that is not all white space, in document
\* order, with order values 0..k-1 equal to the array indices (white-space
\* text uses up no order value); an element's type follows the tag table,
\* paragraph for any other tag, and its content is its inner markup; a
\* text node gives a paragraph whose content is the text.
C18_OneBlockPerTopLevelNode ==
  svcOp.name = "htmlToBlocks" =>
    LET nodes == svcOp.nodes
        Q == {i \in 1..Len(nodes) : Yields(nodes[i])}
        Rank(i) == Cardinality({j \in Q : j <= i})
    IN  /\ Len(svcSeq) = Cardinality(Q)
        /\ \A i \in Q :
              LET b == svcSeq[Rank(i)]
                  node == nodes[i]
              IN  /\ b.order = Rank(i) - 1
                  /\ IF node.nodeType = ELEMENT_NODE
                     THEN /\ b.content = node.innerHTML
                          /\ b.type = IF node.tagName \in DOMAIN TagTable
                                      THEN TagTable[node.tagName]
                                      ELSE "paragraph"
                     ELSE /\ b.content = node.textContent
                          /\ b.type = "paragraph"

\* markup with a white-space text node between two elements was
\* converted: two blocks, the second with order 1
C18_Witness ==
  /\ svcOp.name = "htmlToBlocks"
  /\ Len(svcOp.nodes) = 3
  /\ svcOp.nodes[2] = [nodeType |-> TEXT_NODE, textContent |-> <<" ">>]
  /\ Len(svcSeq) = 2
  /\ svcSeq[1].type = "heading2"
  /\ svcSeq[2].type = "heading3"
  /\ svcSeq[2].order = 1

\* the types whose fragment is the content between one pair of tags that
\* the tag table maps back
SimpleTypes == {"paragraph", "heading1", "heading2", "heading3", "quote"}

\* text without markup characters
PlainText(content) == \A i \in 1..Len(content) : content[i] \in {"1", " "}

C20_TextFallsBackToParagraph ==
  svcOp.name = "htmlToBlocks" =>
    /\ \A i \in 1..Len(svcSeq) : WellFormed(svcSeq[i])
    /\ OrderInv(svcSeq)
    /\ DistinctIds(svcSeq)
    /\ (\A i \in 1..Len(svcIn) : IsCharToken(svcIn[i])) =>
          /\ Len(svcSeq) = 1
          /\ svcSeq[1].type = "paragraph"
          /\ svcSeq[1].content = svcIn

\* C21: a sequence of blocks changed in the block editor and saved through
\* the storage service is part of the stored row, and the note loaded from
\* that row holds the same sequence.
C21_BlocksSurviveStorage ==
  [][ /\ (lastUpdate' # <<>> /\ lastUpdate'[1].by = "blocks") =>
           LET saved == lastUpdate'[1].note
           IN  /\ "blocks" \in DOMAIN db'[saved.id]
               /\ db'[saved.id].blocks = saved.blocks
      /\ (lastUpdate # <<>> /\ lastUpdate[1].by = "blocks"
            /\ lastUpdate' = <<[by |-> "load"]>>) =>
           BlocksOf(notes'[lastUpdate[1].note.id])
             = lastUpdate[1].note.blocks ]_vars

C23_DragNotifiesOnceAtDrop ==
  [][ /\ lastOp'.name \in {"dragStart", "dragOver"} =>
           notified' = <<>> /\ blocks' = blocks
      /\ lastOp'.name = "drop" =>
           IF draggedIndex # <<>> /\ draggedIndex[1] # lastOp'.index
           THEN Len(notified') = 1
           ELSE notified' = <<>> /\ blocks' = blocks ]_vars

\* C24: with an index inside the sequence and the id of a block of it, each
\* handler notifies the sequence the blocks service computes from the same
\* blocks: the menu's insert insertBlock with the new block, a delete from
\* two or more blocks removeBlock, a drop moveBlock, and a duplicate of the
\* block at k insertBlock at k + 1 with the clone.
C24_HandlersAgreeWithService ==
  [][ /\ (lastOp'.name = "selectType" /\ menuIndex # <<>>) =>
           notified' =
             <<insertBlock(blocks, menuIndex[1],
                           [id |-> generateId, type |-> lastOp'.type,
                            content |-> "", order |-> menuIndex[1],
                            metadata |-> EmptyObj])>>
      /\ (lastOp'.name = "delete" /\ Len(blocks) >= 2
            /\ lastOp'.id \in IdsOf(blocks)) =>
           notified' = <<removeBlock(blocks, lastOp'.id)>>
      /\ (lastOp'.name = "drop" /\ draggedIndex # <<>>
            /\ draggedIndex[1] \in 0..(Len(blocks) - 1)
            /\ draggedIndex[1] # lastOp'.index) =>
           notified' = <<moveBlock(blocks, draggedIndex[1], lastOp'.index)>>
      /\ (lastOp'.name = "duplicate" /\ lastOp'.id \in IdsOf(blocks)) =>
           LET k == getBlockIndex(blocks, lastOp'.id)
           IN  notified' =
                 <<insertBlock(blocks, k + 1,
                               Merge(blocks[k + 1],
                                     [id |-> generateId,
                                      order |-> k + 1]))>> ]_vars

\* C25: a drop that relocates a block belongs to a drag in progress, and the
\* block it relocates is the one that was at the drag index when that drag
\* started, whatever handlers ran since; an index recorded by a drag that
\* ended in a drop onto itself or in no drop is used by no later drop.
C25_DropMovesTheDraggedBlock ==
  [][ (lastOp'.name = "drop" /\ notified' # <<>>) =>
        /\ gesture # <<>>
        /\ blocks[draggedIndex[1] + 1].id = gesture[1] ]_vars

\* order grows from each element to the next
StrictlyIncreasing(seq) ==
  \A i \in 1..(Len(seq) - 1) : seq[i].order < seq[i + 1].order

\* C26: the order values of the editor's blocks grow strictly along the
\* array in every reachable state, contiguous or not, so the sort by order
\* that blocksToHtml starts with leaves the array in the order it has.
C26_OrderStrictlyIncreasing ==
  /\ StrictlyIncreasing(blocks)
  /\ SortByOrder(blocks) = blocks

\* a delete has left order values that are not the indices
C26_Witness ==
  /\ lastOp.name = "delete"
  /\ Len(blocks) >= 1
  /\ blocks[1].order > 0
  /\ SortByOrder(blocks) = blocks

\* C27: after every step selectedBlockId is null or the id of a block of
\* the sequence BlockEditor then holds, also when that sequence became
\* another note's; after an insert it is the new block's id and after a
\* delete that removed a block it is null.
C27_SelectionIsOfCurrentBlocks ==
  [][ /\ selectedBlockId' = Null \/ selectedBlockId' \in IdsOf(blocks')
      /\ (lastOp'.name = "selectType" /\ notified' # <<>>) =>
           /\ selectedBlockId' \in IdsOf(blocks')
           /\ selectedBlockId' \notin IdsOf(blocks)
      /\ (lastOp'.name = "delete" /\ Len(blocks') < Len(blocks)) =>
           selectedBlockId' = Null ]_vars

\* C28: blocksToHtml leaves the array it was given in the same element
\* order with the same field values, and so do the insert of the menu, the
\* duplicate handler and the drop handler with the blocks array they read:
\* after the handler every block of that array has the field values,
\* order included, that it had before.
C28_GivenSequenceUntouched ==
  [][ /\ svcOp'.name = "blocksToHtml" => svcIn' = svcOp'.blocks
      /\ lastOp'.name \in {"selectType", "duplicate", "drop"} =>
           (IF notified' = <<>> THEN blocks'
            ELSE GivenAfter(blocks, notified'[1])) = blocks ]_vars

\* what the editor showed for a note when it was loaded
Loaded(id) == [title |-> NoteOf(id).title, content |-> NoteOf(id).content]

\* C29: once no timer is pending and no state reset is outstanding, every
\* note whose title or flat content the user changed holds, through
\* onUpdate, the title and content last entered for it, also when the note
\* prop changed before the timer fired.
C29_EditsReachOnUpdate ==
  (timer = <<>> /\ ~resetPending) =>
    \A id \in DOMAIN notes :
      entered[id] # Loaded(id) =>
        /\ notes[id].title = entered[id].title
        /\ notes[id].content = entered[id].content

\* C30: every onUpdate the debounce timer issues carries, with the id of a
\* note, the title and content entered or loaded for that note, in every
\* interleaving of edits, note switches, state resets and timer firings.
C30_TimerSavesIntoItsOwnNote ==
  [][ (lastUpdate' # lastUpdate /\ lastUpdate'[1].by = "timer") =>
        LET u == lastUpdate'[1].note
        IN  /\ u.title = entered'[u.id].title
            /\ u.content = entered'[u.id].content ]_vars

====
